---- MODULE Spec2Model ----
(***************************************************************************)
(* T5Backbone (keras_nlp/models/t5/t5_backbone.py): the graph assembled by *)
(* __init__, statement group by statement group, the configuration         *)
(* round trip (get_config / from_config), the token_embedding accessor,    *)
(* the presets class property, and the attention masks the graph computes  *)
(* on a forward call.                                                      *)
(*                                                                         *)
(* Tensors and layers are objects: each lives in a heap (a sequence) and   *)
(* is named by its index, so "the same tensor" is identity of indices.     *)
(* None is the index 0.                                                    *)
(***************************************************************************)
EXTENDS Integers, Sequences, FiniteSets, TLC

VARIABLES
    hp,        \* the arguments __init__ was called with
    pc,        \* position inside __init__ / after it
    loc,       \* the local variables of __init__
    layers,    \* heap of layer objects created so far
    tensors,   \* heap of symbolic tensors created so far
    calls,     \* log of T5TransformerLayer calls, in program order
    model,     \* what super().__init__ and the attribute assignments set on self
    orig,      \* arguments of the model a reconstruction started from
    gen,       \* 0: first model, 1: model rebuilt by from_config
    fwd,       \* result of the last forward call (shapes)
    heap,      \* presets: heap of dict objects
    returned,  \* presets: the reference each access handed out, and the
               \* number of mutations made before it
    touched,   \* presets: indices of handed-out bundles the caller mutated
    nmut       \* presets: number of mutations made so far

buildVars == <<hp, pc, loc, layers, tensors, calls, model, orig, gen, fwd>>
presetVars == <<heap, returned, touched, nmut>>
vars == <<hp, pc, loc, layers, tensors, calls, model, orig, gen, fwd,
          heap, returned, touched, nmut>>

----------------------------------------------------------------------------
(* Bounds *)

MaxLayers == 3
MaxBatch == 2
MaxEncLen == 5
MaxDecLen == 4
MaxMaskLen == 2
MaxAccess == 2
MaxMutations == 2

None == 0

----------------------------------------------------------------------------
(* Hyperparameters.  Floats are opaque to the builder and are kept as the  *)
(* text of their literals.                                                 *)

DefaultDropout == "0.1"
DefaultActivation == "relu"
DefaultUseGatedActivation == FALSE
DefaultLayerNormEpsilon == "1e-06"

\* Keyword arguments consumed by the base class (Backbone / keras.Model).
DefaultKwargs == [name |-> "t5_backbone", trainable |-> TRUE]

\* A reference set of arguments; num_layers is chosen separately.
BaseHyperparameters ==
    [num_heads |-> 2,
     vocabulary_size |-> 100,
     hidden_dim |-> 8,
     intermediate_dim |-> 16,
     dropout |-> DefaultDropout,
     activation |-> DefaultActivation,
     use_gated_activation |-> DefaultUseGatedActivation,
     layer_norm_epsilon |-> DefaultLayerNormEpsilon]

\* Argument sets the model is built from: any num_layers from 0 (the
\* constructor takes any integer, and range(0) is an empty loop), and the
\* other arguments differing from the reference set in at most two places
\* (the builder passes each argument on by itself).
HyperparameterSets ==
    {h \in [num_layers : 0..MaxLayers,
            num_heads : {1, 2},
            vocabulary_size : {50, 100},
            hidden_dim : {1, 8},
            intermediate_dim : {16, 32},
            dropout : {"0.0", DefaultDropout},
            activation : {DefaultActivation, "gelu"},
            use_gated_activation : BOOLEAN,
            layer_norm_epsilon : {DefaultLayerNormEpsilon, "1e-05"}] :
        Cardinality({f \in DOMAIN BaseHyperparameters :
                        h[f] # BaseHyperparameters[f]}) <= 2}

InputNames == {"encoder_token_ids", "encoder_padding_mask",
               "decoder_token_ids", "decoder_padding_mask"}

----------------------------------------------------------------------------
(* Object constructors *)

InputTensor(n) ==
    [op |-> "Input", name |-> n, layer |-> None, args |-> <<>>, deps |-> {n}]

\* A tensor of heap ts produced by applying a layer (or a tf op, layer = None)
\* to the tensors args.  deps is the set of model inputs it is computed from.
OpTensor(ts, o, l, a) ==
    [op |-> o, name |-> "", layer |-> l, args |-> a,
     deps |-> UNION {ts[a[k]].deps : k \in DOMAIN a}]

Embedding(input_dim, output_dim, n) ==
    [cls |-> "Embedding", name |-> n,
     input_dim |-> input_dim, output_dim |-> output_dim]

Dropout(rate, n) == [cls |-> "Dropout", name |-> n, rate |-> rate]

T5LayerNorm(epsilon, n) == [cls |-> "T5LayerNorm", name |-> n, epsilon |-> epsilon]

LayerName(is_decoder, i) ==
    IF is_decoder
    THEN <<"transformer_decoder_layer_0", "transformer_decoder_layer_1",
           "transformer_decoder_layer_2", "transformer_decoder_layer_3",
           "transformer_decoder_layer_4">>[i + 1]
    ELSE <<"transformer_encoder_layer_0", "transformer_encoder_layer_1",
           "transformer_encoder_layer_2", "transformer_encoder_layer_3",
           "transformer_encoder_layer_4">>[i + 1]

UseRelativeAttentionBias(i) == (i = 0)

T5TransformerLayer(is_decoder, h, i) ==
    [cls |-> "T5TransformerLayer",
     name |-> LayerName(is_decoder, i),
     index |-> i,
     is_decoder |-> is_decoder,
     hidden_dim |-> h.hidden_dim,
     intermediate_dim |-> h.intermediate_dim,
     dropout |-> h.dropout,
     activation |-> h.activation,
     layer_norm_epsilon |-> h.layer_norm_epsilon,
     num_heads |-> h.num_heads,
     use_gated_activation |-> h.use_gated_activation,
     use_relative_attention_bias |-> UseRelativeAttentionBias(i)]

----------------------------------------------------------------------------
(* __init__, lines 46-178 *)

NoLocals ==
    [encoder_token_ids |-> None, encoder_padding_mask |-> None,
     decoder_token_ids |-> None, decoder_padding_mask |-> None,
     token_embedding_layer |-> None, token_embedding |-> None,
     x |-> None, encoder_attention_mask |-> None, position_bias |-> None,
     i |-> 0, encoder_output |-> None, causal_mask |-> None,
     decoder_attention_mask |-> None, decoder_output |-> None]

NoModel == [built |-> FALSE, inputs |-> <<>>, outputs |-> <<>>,
            kwargs |-> <<>>, attrs |-> <<>>]

NoForward == [called |-> FALSE, batch |-> 0, enc_len |-> 0, dec_len |-> 0,
              outputs |-> <<>>]

\* Lines 46-60: the four keras.Input placeholders.
Inputs ==
    /\ pc = "inputs"
    /\ LET n == Len(tensors) IN
        /\ tensors' = tensors \o <<InputTensor("encoder_token_ids"),
                                   InputTensor("encoder_padding_mask"),
                                   InputTensor("decoder_token_ids"),
                                   InputTensor("decoder_padding_mask")>>
        /\ loc' = [loc EXCEPT !.encoder_token_ids = n + 1,
                              !.encoder_padding_mask = n + 2,
                              !.decoder_token_ids = n + 3,
                              !.decoder_padding_mask = n + 4]
    /\ pc' = "token_embedding_layer"
    /\ UNCHANGED <<hp, layers, calls, model, orig, gen, fwd, presetVars>>

\* Mutant: input_dim and output_dim exchanged.
NewTokenEmbedding_Swapped(h) ==
    Embedding(h.hidden_dim, h.vocabulary_size, "token_embedding")

\* Lines 63-68: the constructor call of the shared embedding table.
NewTokenEmbedding(h) ==
    Embedding(h.vocabulary_size, h.hidden_dim, "token_embedding")

TokenEmbeddingLayer ==
    /\ pc = "token_embedding_layer"
    /\ layers' = Append(layers, NewTokenEmbedding(hp))
    /\ loc' = [loc EXCEPT !.token_embedding_layer = Len(layers) + 1]
    /\ pc' = "encoder_embed"
    /\ UNCHANGED <<hp, tensors, calls, model, orig, gen, fwd, presetVars>>

\* Mutant: the encoder path embeds the decoder's tokens.
EncoderEmbedInput_Decoder(l) == l.decoder_token_ids

\* Line 73: the tensor the encoder path looks up in the table.
EncoderEmbedInput(l) == l.encoder_token_ids

\* Lines 73-77: embed the encoder tokens, then dropout.
EncoderEmbed ==
    /\ pc = "encoder_embed"
    /\ LET emb == OpTensor(tensors, "Embedding", loc.token_embedding_layer,
                           <<EncoderEmbedInput(loc)>>)
           ts1 == Append(tensors, emb)
           dl  == Len(layers) + 1
           dr  == OpTensor(ts1, "Dropout", dl, <<Len(ts1)>>)
       IN /\ layers' = Append(layers, Dropout(hp.dropout, "encoder_embedding_dropout"))
          /\ tensors' = Append(ts1, dr)
          /\ loc' = [loc EXCEPT !.token_embedding = Len(ts1),
                                !.x = Len(ts1) + 1]
    /\ pc' = "encoder_mask"
    /\ UNCHANGED <<hp, calls, model, orig, gen, fwd, presetVars>>

\* Line 80: encoder_padding_mask[:, tf.newaxis, :].
EncoderMask ==
    /\ pc = "encoder_mask"
    /\ tensors' = Append(tensors, OpTensor(tensors, "newaxis", None,
                                           <<loc.encoder_padding_mask>>))
    /\ loc' = [loc EXCEPT !.encoder_attention_mask = Len(tensors) + 1]
    /\ pc' = "encoder_loop_init"
    /\ UNCHANGED <<hp, layers, calls, model, orig, gen, fwd, presetVars>>

\* Line 82: position_bias = None, and the loop variable starts at 0.
EncoderLoopInit ==
    /\ pc = "encoder_loop_init"
    /\ loc' = [loc EXCEPT !.position_bias = None, !.i = 0]
    /\ pc' = "encoder_loop"
    /\ UNCHANGED <<hp, layers, tensors, calls, model, orig, gen, fwd, presetVars>>

NonNone(s) == SelectSeq(s, LAMBDA t : t # None)

\* The transformer layer's call: (hidden_states, position_bias) from
\* (hidden_states, attention_mask, position_bias, [encoder_hidden_states,
\* encoder_attention_mask]).  A layer given no bias computes one (a new
\* tensor); a layer given a bias hands the same tensor back.
T5TransformerLayerCall(ts, lyr, a) ==
    LET hid == OpTensor(ts, "T5TransformerLayer.hidden_states", lyr,
                        NonNone(<<a.x, a.attention_mask, a.position_bias,
                                  a.encoder_hidden_states,
                                  a.encoder_attention_mask>>))
        ts1 == Append(ts, hid)
        bias == OpTensor(ts, "T5TransformerLayer.position_bias", lyr,
                         <<a.x, a.attention_mask>>)
    IN IF a.position_bias = None
       THEN [tensors |-> Append(ts1, bias), x |-> Len(ts1),
             position_bias |-> Len(ts1) + 1]
       ELSE [tensors |-> ts1, x |-> Len(ts1), position_bias |-> a.position_bias]

\* Mutant: the bias is not threaded into the next layer.
EncoderCallArgs_NoBias(l) ==
    [x |-> l.x,
     attention_mask |-> l.encoder_attention_mask,
     position_bias |-> None,
     encoder_hidden_states |-> None,
     encoder_attention_mask |-> None]

\* Lines 95-99: the arguments of an encoder layer's call.
EncoderCallArgs(l) ==
    [x |-> l.x,
     attention_mask |-> l.encoder_attention_mask,
     position_bias |-> l.position_bias,
     encoder_hidden_states |-> None,
     encoder_attention_mask |-> None]

\* Lines 83-99: one iteration of the encoder loop.
EncoderLayer ==
    /\ pc = "encoder_loop"
    /\ loc.i < hp.num_layers
    /\ LET lyr == Len(layers) + 1
           a   == EncoderCallArgs(loc)
           r   == T5TransformerLayerCall(tensors, lyr, a)
       IN /\ layers' = Append(layers, T5TransformerLayer(FALSE, hp, loc.i))
          /\ tensors' = r.tensors
          /\ calls' = Append(calls, [layer |-> lyr, args |-> a, x |-> r.x,
                                     position_bias |-> r.position_bias])
          /\ loc' = [loc EXCEPT !.x = r.x, !.position_bias = r.position_bias,
                                !.i = loc.i + 1]
    /\ pc' = "encoder_loop"
    /\ UNCHANGED <<hp, model, orig, gen, fwd, presetVars>>

\* Lines 101-109, entered when range(num_layers) is exhausted: closing
\* layer normalization, dropout, encoder_output = x.
EncoderOutput ==
    /\ pc = "encoder_loop"
    /\ loc.i >= hp.num_layers
    /\ LET nl  == Len(layers) + 1
           nt  == OpTensor(tensors, "T5LayerNorm", nl, <<loc.x>>)
           ts1 == Append(tensors, nt)
           dt  == OpTensor(ts1, "Dropout", nl + 1, <<Len(ts1)>>)
       IN /\ layers' = layers \o
                <<T5LayerNorm(hp.layer_norm_epsilon, "encoder_output_layer_norm"),
                  Dropout(hp.dropout, "encoder_output_dropout")>>
          /\ tensors' = Append(ts1, dt)
          /\ loc' = [loc EXCEPT !.x = Len(ts1) + 1,
                                !.encoder_output = Len(ts1) + 1]
    /\ pc' = "decoder_embed"
    /\ UNCHANGED <<hp, calls, model, orig, gen, fwd, presetVars>>

\* Mutant: the decoder path builds an embedding table of its own.
DecoderEmbed_OwnTable ==
    /\ pc = "decoder_embed"
    /\ LET el  == Len(layers) + 1
           emb == OpTensor(tensors, "Embedding", el, <<loc.decoder_token_ids>>)
           ts1 == Append(tensors, emb)
           dr  == OpTensor(ts1, "Dropout", el + 1, <<Len(ts1)>>)
       IN /\ layers' = layers \o
                <<Embedding(hp.vocabulary_size, hp.hidden_dim,
                            "decoder_token_embedding"),
                  Dropout(hp.dropout, "decoder_embedding_dropout")>>
          /\ tensors' = Append(ts1, dr)
          /\ loc' = [loc EXCEPT !.token_embedding = Len(ts1),
                                !.x = Len(ts1) + 1]
    /\ pc' = "decoder_mask"
    /\ UNCHANGED <<hp, calls, model, orig, gen, fwd, presetVars>>

\* Lines 113-118: embed the decoder tokens through the same table, dropout.
DecoderEmbed ==
    /\ pc = "decoder_embed"
    /\ LET emb == OpTensor(tensors, "Embedding", loc.token_embedding_layer,
                           <<loc.decoder_token_ids>>)
           ts1 == Append(tensors, emb)
           dl  == Len(layers) + 1
           dr  == OpTensor(ts1, "Dropout", dl, <<Len(ts1)>>)
       IN /\ layers' = Append(layers, Dropout(hp.dropout, "decoder_embedding_dropout"))
          /\ tensors' = Append(ts1, dr)
          /\ loc' = [loc EXCEPT !.token_embedding = Len(ts1),
                                !.x = Len(ts1) + 1]
    /\ pc' = "decoder_mask"
    /\ UNCHANGED <<hp, calls, model, orig, gen, fwd, presetVars>>

\* Mutant: the padding mask alone, the causal mask computed and dropped.
DecoderMask_PaddingOnly ==
    /\ pc = "decoder_mask"
    /\ LET pad == OpTensor(tensors, "newaxis", None, <<loc.decoder_padding_mask>>)
           ts1 == Append(tensors, pad)
           cm  == OpTensor(ts1, "compute_causal_mask", None, <<loc.x>>)
       IN /\ tensors' = Append(ts1, cm)
          /\ loc' = [loc EXCEPT !.causal_mask = Len(ts1) + 1,
                                !.decoder_attention_mask = Len(ts1)]
    /\ pc' = "decoder_loop_init"
    /\ UNCHANGED <<hp, layers, calls, model, orig, gen, fwd, presetVars>>

\* Lines 120-124: padding mask with a new axis, the causal mask of the
\* shape of x, and their conjunction.
DecoderMask ==
    /\ pc = "decoder_mask"
    /\ LET pad == OpTensor(tensors, "newaxis", None, <<loc.decoder_padding_mask>>)
           ts1 == Append(tensors, pad)
           cm  == OpTensor(ts1, "compute_causal_mask", None, <<loc.x>>)
           ts2 == Append(ts1, cm)
           am  == OpTensor(ts2, "and", None, <<Len(ts2), Len(ts1)>>)
       IN /\ tensors' = Append(ts2, am)
          /\ loc' = [loc EXCEPT !.causal_mask = Len(ts2),
                                !.decoder_attention_mask = Len(ts2) + 1]
    /\ pc' = "decoder_loop_init"
    /\ UNCHANGED <<hp, layers, calls, model, orig, gen, fwd, presetVars>>

\* Mutant: the bias of the encoder stack is not cleared.
DecoderLoopInit_NoReset ==
    /\ pc = "decoder_loop_init"
    /\ loc' = [loc EXCEPT !.i = 0]
    /\ pc' = "decoder_loop"
    /\ UNCHANGED <<hp, layers, tensors, calls, model, orig, gen, fwd, presetVars>>

\* Line 126: position_bias = None, and the loop variable starts at 0.
DecoderLoopInit ==
    /\ pc = "decoder_loop_init"
    /\ loc' = [loc EXCEPT !.position_bias = None, !.i = 0]
    /\ pc' = "decoder_loop"
    /\ UNCHANGED <<hp, layers, tensors, calls, model, orig, gen, fwd, presetVars>>

\* Mutant: cross-attention is given the decoder's own mask.
DecoderCallArgs_DecoderMask(l) ==
    [x |-> l.x,
     attention_mask |-> l.decoder_attention_mask,
     position_bias |-> l.position_bias,
     encoder_hidden_states |-> l.encoder_output,
     encoder_attention_mask |-> l.decoder_attention_mask]

\* Lines 139-145: the arguments of a decoder layer's call.
DecoderCallArgs(l) ==
    [x |-> l.x,
     attention_mask |-> l.decoder_attention_mask,
     position_bias |-> l.position_bias,
     encoder_hidden_states |-> l.encoder_output,
     encoder_attention_mask |-> l.encoder_attention_mask]

\* Lines 127-145: one iteration of the decoder loop.
DecoderLayer ==
    /\ pc = "decoder_loop"
    /\ loc.i < hp.num_layers
    /\ LET lyr == Len(layers) + 1
           a   == DecoderCallArgs(loc)
           r   == T5TransformerLayerCall(tensors, lyr, a)
       IN /\ layers' = Append(layers, T5TransformerLayer(TRUE, hp, loc.i))
          /\ tensors' = r.tensors
          /\ calls' = Append(calls, [layer |-> lyr, args |-> a, x |-> r.x,
                                     position_bias |-> r.position_bias])
          /\ loc' = [loc EXCEPT !.x = r.x, !.position_bias = r.position_bias,
                                !.i = loc.i + 1]
    /\ pc' = "decoder_loop"
    /\ UNCHANGED <<hp, model, orig, gen, fwd, presetVars>>

\* Lines 147-155, entered when range(num_layers) is exhausted.
DecoderOutput ==
    /\ pc = "decoder_loop"
    /\ loc.i >= hp.num_layers
    /\ LET nl  == Len(layers) + 1
           nt  == OpTensor(tensors, "T5LayerNorm", nl, <<loc.x>>)
           ts1 == Append(tensors, nt)
           dt  == OpTensor(ts1, "Dropout", nl + 1, <<Len(ts1)>>)
       IN /\ layers' = layers \o
                <<T5LayerNorm(hp.layer_norm_epsilon, "decoder_output_layer_norm"),
                  Dropout(hp.dropout, "decoder_output_dropout")>>
          /\ tensors' = Append(ts1, dt)
          /\ loc' = [loc EXCEPT !.x = Len(ts1) + 1,
                                !.decoder_output = Len(ts1) + 1]
    /\ pc' = "super_init"
    /\ UNCHANGED <<hp, calls, model, orig, gen, fwd, presetVars>>

\* Lines 158-163: the inputs mapping handed to the functional model.
ModelInputs(l) ==
    [encoder_token_ids |-> l.encoder_token_ids,
     encoder_padding_mask |-> l.encoder_padding_mask,
     decoder_token_ids |-> l.decoder_token_ids,
     decoder_padding_mask |-> l.decoder_padding_mask]

\* Lines 164-167: the outputs mapping handed to the functional model.
ModelOutputs(l) ==
    [encoder_sequence_output |-> l.encoder_output,
     decoder_sequence_output |-> l.decoder_output]

\* Lines 157-169: super().__init__(inputs, outputs=..., **kwargs).
SuperInit ==
    /\ pc = "super_init"
    /\ model' = [model EXCEPT !.built = TRUE,
                              !.inputs = ModelInputs(loc),
                              !.outputs = ModelOutputs(loc),
                              !.kwargs = DefaultKwargs]
    /\ pc' = "attributes"
    /\ UNCHANGED <<hp, loc, layers, tensors, calls, orig, gen, fwd, presetVars>>

\* Lines 171-178: the attributes stored on self.
Attributes(h) ==
    [vocabulary_size |-> h.vocabulary_size,
     hidden_dim |-> h.hidden_dim,
     intermediate_dim |-> h.intermediate_dim,
     num_layers |-> h.num_layers,
     num_heads |-> h.num_heads,
     activation |-> h.activation,
     dropout |-> h.dropout,
     layer_norm_epsilon |-> h.layer_norm_epsilon]

SetAttributes ==
    /\ pc = "attributes"
    /\ model' = [model EXCEPT !.attrs = Attributes(hp)]
    /\ pc' = "done"
    /\ UNCHANGED <<hp, loc, layers, tensors, calls, orig, gen, fwd, presetVars>>

----------------------------------------------------------------------------
(* get_config (lines 180-194) and reconstruction from it *)

\* Backbone.get_config: the base class's part of the configuration.
BaseConfig(m) == [name |-> m.kwargs.name, trainable |-> m.kwargs.trainable]

\* dict.update: the entries of d replace or extend those of c.
Update(c, d) == d @@ c

get_config(m) ==
    Update(BaseConfig(m),
           [vocabulary_size |-> m.attrs.vocabulary_size,
            hidden_dim |-> m.attrs.hidden_dim,
            intermediate_dim |-> m.attrs.intermediate_dim,
            num_layers |-> m.attrs.num_layers,
            num_heads |-> m.attrs.num_heads,
            activation |-> m.attrs.activation,
            dropout |-> m.attrs.dropout,
            layer_norm_epsilon |-> m.attrs.layer_norm_epsilon])

\* A keyword argument of __init__ (lines 33-45): the caller's value, or the
\* default of the signature when the caller gives none.
Arg(config, key, default) ==
    IF key \in DOMAIN config THEN config[key] ELSE default

\* The binding of cls(**config) to the parameters of __init__, lines 33-45.
BindArguments(config) ==
    [num_layers |-> config["num_layers"],
     num_heads |-> config["num_heads"],
     vocabulary_size |-> config["vocabulary_size"],
     hidden_dim |-> config["hidden_dim"],
     intermediate_dim |-> config["intermediate_dim"],
     dropout |-> Arg(config, "dropout", DefaultDropout),
     activation |-> Arg(config, "activation", DefaultActivation),
     use_gated_activation |->
         Arg(config, "use_gated_activation", DefaultUseGatedActivation),
     layer_norm_epsilon |->
         Arg(config, "layer_norm_epsilon", DefaultLayerNormEpsilon)]

\* Backbone.from_config(model.get_config()): cls(**config), which enters
\* __init__ anew with the arguments bound from the configuration.
FromConfig ==
    /\ pc = "done"
    /\ gen = 0
    /\ hp' = BindArguments(get_config(model))
    /\ orig' = hp
    /\ gen' = 1
    /\ pc' = "inputs"
    /\ loc' = NoLocals
    /\ layers' = <<>>
    /\ tensors' = <<>>
    /\ calls' = <<>>
    /\ model' = NoModel
    /\ fwd' = NoForward
    /\ UNCHANGED presetVars

----------------------------------------------------------------------------
(* The built model: its layers, get_layer, token_embedding, a forward call *)

RECURSIVE Ancestors(_)
\* The tensors the tensor t is computed from, t included.
Ancestors(t) ==
    {t} \cup UNION {Ancestors(tensors[t].args[k]) : k \in DOMAIN tensors[t].args}

\* The layers of the functional model: those on the graph between its inputs
\* and its outputs.
ModelLayers(m) ==
    {tensors[t].layer :
        t \in UNION {Ancestors(m.outputs[n]) : n \in DOMAIN m.outputs}} \ {None}

\* keras get_layer(name): the layer of the model with that name, None if none.
get_layer(m, n) ==
    IF \E l \in ModelLayers(m) : layers[l].name = n
    THEN CHOOSE l \in ModelLayers(m) : layers[l].name = n
    ELSE None

\* Lines 196-198.
token_embedding(m) == get_layer(m, "token_embedding")

\* Shapes [a, 1, c] and [a, b, c] under numpy broadcasting.
Broadcast(s1, s2) ==
    [k \in DOMAIN s1 |-> IF s1[k] = 1 THEN s2[k] ELSE s1[k]]

RECURSIVE ShapeOf(_, _)
\* The shape of tensor t when the model is called on a batch of sh.batch
\* sequences of lengths sh.enc_len (encoder) and sh.dec_len (decoder).
ShapeOf(t, sh) ==
    LET T == tensors[t]
        A(k) == ShapeOf(T.args[k], sh)
    IN CASE T.op = "Input" ->
              IF T.name \in {"encoder_token_ids", "encoder_padding_mask"}
              THEN <<sh.batch, sh.enc_len>>
              ELSE <<sh.batch, sh.dec_len>>
         [] T.op = "Embedding" -> Append(A(1), layers[T.layer].output_dim)
         [] T.op \in {"Dropout", "T5LayerNorm",
                      "T5TransformerLayer.hidden_states"} -> A(1)
         [] T.op = "newaxis" -> <<A(1)[1], 1, A(1)[2]>>
         [] T.op = "compute_causal_mask" -> <<A(1)[1], A(1)[2], A(1)[2]>>
         [] T.op = "and" -> Broadcast(A(1), A(2))

\* model(inputs) on token ids and padding masks of shapes [batch, enc_len]
\* and [batch, dec_len]: the shapes of the named outputs.  A call reads the
\* graph and writes nothing to it, so one call per model is followed.
Forward ==
    /\ pc = "done"
    /\ ~fwd.called
    /\ \E b \in 1..MaxBatch, el \in 1..MaxEncLen, dl \in 1..MaxDecLen :
          LET sh == [batch |-> b, enc_len |-> el, dec_len |-> dl] IN
          fwd' = [called |-> TRUE, batch |-> b, enc_len |-> el, dec_len |-> dl,
                  outputs |-> [n \in DOMAIN model.outputs |->
                                  ShapeOf(model.outputs[n], sh)]]
    /\ UNCHANGED <<hp, pc, loc, layers, tensors, calls, model, orig, gen,
                   presetVars>>

----------------------------------------------------------------------------
(* The attention masks as values.  A padding mask is a function            *)
(* [0..batch-1 -> [0..len-1 -> {0, 1}]]; positions count from 0.           *)

Range0(n) == 0..(n - 1)

PaddingMasks(b, n) == [Range0(b) -> [Range0(n) -> {0, 1}]]

\* The inputs are int32 tensors and nothing restricts their entries to 0
\* and 1: masks of one sequence with other entries, a negative one included.
IntMasks(n) == [Range0(1) -> [Range0(n) -> -1..3]]

\* m[:, tf.newaxis, :], lines 80 and 121.
NewAxis(m) == [b \in DOMAIN m |-> [i \in {0} |-> m[b]]]

\* compute_causal_mask(batch_size, input_length, output_length): entry
\* (b, i, j) is set exactly when key j is not after query i.
compute_causal_mask(batch_size, input_length, output_length) ==
    [b \in Range0(batch_size) |->
        [i \in Range0(output_length) |->
            [j \in Range0(input_length) |-> IF j <= i THEN 1 ELSE 0]]]

RECURSIVE BitAnd(_, _)
\* & on two entries of integer tensors: the bitwise and of their two's
\* complement digits (\div rounds down, so a negative entry ends in -1,
\* all digits set).
BitAnd(p, q) ==
    CASE p = 0 \/ q = 0 -> 0
      [] p = -1 -> q
      [] q = -1 -> p
      [] OTHER -> (p % 2) * (q % 2) + 2 * BitAnd(p \div 2, q \div 2)

\* a & m for a of shape [b, q, k] and m of shape [b, 1, k] (broadcast over
\* the second axis).
AndBroadcast(a, m) ==
    [b \in DOMAIN a |->
        [i \in DOMAIN a[b] |->
            [j \in DOMAIN a[b][i] |-> BitAnd(a[b][i][j], m[b][0][j])]]]

\* The padding mask of b sequences of n tokens without padding.
Ones(b, n) == [bb \in Range0(b) |-> [j \in Range0(n) |-> 1]]

\* The inputs of a forward call that the masks are computed from: padding
\* masks ep and dp over {0, 1} of shapes [batch, enc_len] and
\* [batch, dec_len], the token ids having the shapes of their padding masks.
ForwardInput(ep, dp) ==
    [batch |-> Cardinality(DOMAIN ep),
     enc_len |-> Cardinality(DOMAIN ep[0]),
     dec_len |-> Cardinality(DOMAIN dp[0]),
     encoder_padding_mask |-> ep,
     decoder_padding_mask |-> dp]

RECURSIVE EvalMask(_, _)
\* The value of the mask tensor t of the graph on the inputs in.
EvalMask(t, in) ==
    LET T == tensors[t]
        A(k) == EvalMask(T.args[k], in)
        S(k) == ShapeOf(T.args[k], in)
    IN CASE T.op = "Input" -> in[T.name]
         [] T.op = "newaxis" -> NewAxis(A(1))
         [] T.op = "compute_causal_mask" ->
              compute_causal_mask(S(1)[1], S(1)[2], S(1)[2])
         [] T.op = "and" -> AndBroadcast(A(1), A(2))

----------------------------------------------------------------------------
(* presets, lines 200-202.  A dict is an object of the heap: a function    *)
(* from its keys to cells, a cell holding a plain value or a reference to  *)
(* another dict.                                                           *)

Val(v) == [isref |-> FALSE, v |-> v]
Ref(r) == [isref |-> TRUE, v |-> r]

\* backbone_presets, the module-level registry: preset name -> bundle, a
\* bundle holding a nested configuration dict.
backbone_presets ==
    <<[preset_a |-> Ref(2), preset_b |-> Ref(4)],
      [config |-> Ref(3), weights_hash |-> Val(1)],
      [num_layers |-> Val(1)],
      [config |-> Ref(5), weights_hash |-> Val(2)],
      [num_layers |-> Val(2)]>>

\* The reference the name backbone_presets is bound to.
RegistryRef == 1

PlainValues == {0, 1}

Children(h, r) == {h[r][k].v : k \in {kk \in DOMAIN h[r] : h[r][kk].isref}}

RECURSIVE Reach(_, _)
\* The objects reachable from r in heap h, r included.
Reach(h, r) == {r} \cup UNION {Reach(h, c) : c \in Children(h, r)}

\* Mutant: copy.copy, a new top-level dict sharing the nested ones.
deepcopy_shallow(h, r) == [heap |-> Append(h, h[r]), ref |-> Len(h) + 1]

\* copy.deepcopy(r): every object reachable from r is copied to a new
\* object, references among the copies mirroring those among the originals.
deepcopy(h, r) ==
    LET R == Reach(h, r)
        New(o) == Len(h) + Cardinality({q \in R : q <= o})
        Old(n) == CHOOSE o \in R : New(o) = n
        Copy(o) == [k \in DOMAIN h[o] |->
                       IF h[o][k].isref THEN Ref(New(h[o][k].v)) ELSE h[o][k]]
    IN [heap |-> [n \in 1..(Len(h) + Cardinality(R)) |->
                     IF n <= Len(h) THEN h[n] ELSE Copy(Old(n))],
        ref |-> New(r)]

\* T5Backbone.presets: one access of the class property.
Presets ==
    /\ Len(returned) < MaxAccess
    /\ LET c == deepcopy(heap, RegistryRef) IN
        /\ heap' = c.heap
        /\ returned' = Append(returned, [ref |-> c.ref, after |-> nmut])
    /\ UNCHANGED <<touched, nmut, buildVars>>

\* The caller stores a plain value under a key of a dict of a bundle it was
\* handed: d[key] = v, for a key holding a plain value or a new key.
MutateSet ==
    /\ nmut < MaxMutations
    /\ \E n \in DOMAIN returned :
       \E o \in Reach(heap, returned[n].ref) :
       \E key \in {k \in DOMAIN heap[o] : ~heap[o][k].isref} \cup {"extra"} :
       \E v \in PlainValues :
          /\ heap' = [heap EXCEPT ![o] = (key :> Val(v)) @@ heap[o]]
          /\ touched' = touched \cup {n}
    /\ nmut' = nmut + 1
    /\ UNCHANGED <<returned, buildVars>>

\* The caller deletes a key of a dict of a bundle it was handed: del d[key].
MutateDelete ==
    /\ nmut < MaxMutations
    /\ \E n \in DOMAIN returned :
       \E o \in Reach(heap, returned[n].ref) :
       \E key \in DOMAIN heap[o] :
          /\ heap' = [heap EXCEPT
                         ![o] = [k \in DOMAIN heap[o] \ {key} |-> heap[o][k]]]
          /\ touched' = touched \cup {n}
    /\ nmut' = nmut + 1
    /\ UNCHANGED <<returned, buildVars>>

RECURSIVE DeepEq(_, _, _, _)
\* Python's == on the dict r1 of heap h1 and the dict r2 of heap h2.
DeepEq(h1, r1, h2, r2) ==
    /\ DOMAIN h1[r1] = DOMAIN h2[r2]
    /\ \A k \in DOMAIN h1[r1] :
          /\ h1[r1][k].isref = h2[r2][k].isref
          /\ IF h1[r1][k].isref
             THEN DeepEq(h1, h1[r1][k].v, h2, h2[r2][k].v)
             ELSE h1[r1][k].v = h2[r2][k].v

----------------------------------------------------------------------------
(* Specifications *)

BuildIdle ==
    /\ hp = CHOOSE h \in HyperparameterSets : TRUE
    /\ orig = hp
    /\ pc = "idle"
    /\ loc = NoLocals
    /\ layers = <<>>
    /\ tensors = <<>>
    /\ calls = <<>>
    /\ model = NoModel
    /\ gen = 0
    /\ fwd = NoForward

PresetsInit ==
    /\ heap = backbone_presets
    /\ returned = <<>>
    /\ touched = {}
    /\ nmut = 0

\* T5Backbone(**hp) is entered with some set of arguments.
Init ==
    /\ hp \in HyperparameterSets
    /\ orig = hp
    /\ pc = "inputs"
    /\ loc = NoLocals
    /\ layers = <<>>
    /\ tensors = <<>>
    /\ calls = <<>>
    /\ model = NoModel
    /\ gen = 0
    /\ fwd = NoForward
    /\ PresetsInit

Next ==
    \/ Inputs
    \/ TokenEmbeddingLayer
    \/ EncoderEmbed
    \/ EncoderMask
    \/ EncoderLoopInit
    \/ EncoderLayer
    \/ EncoderOutput
    \/ DecoderEmbed
    \/ DecoderMask
    \/ DecoderLoopInit
    \/ DecoderLayer
    \/ DecoderOutput
    \/ SuperInit
    \/ SetAttributes
    \/ FromConfig
    \/ Forward

Spec == Init /\ [][Next]_vars

PresetsSpecInit ==
    /\ BuildIdle
    /\ PresetsInit

PresetsNext == Presets \/ MutateSet \/ MutateDelete

SpecPresets == PresetsSpecInit /\ [][PresetsNext]_vars

----------------------------------------------------------------------------
(* Properties *)

ValidHyperparameters(h) ==
    /\ h.num_layers >= 1
    /\ h.num_heads >= 1
    /\ h.vocabulary_size >= 1
    /\ h.hidden_dim >= 1
    /\ h.intermediate_dim >= 1

\* The graph is complete and the model has not been called yet.
Built == pc = "done" /\ ~fwd.called

\* The calls of one stack (is_decoder = d), in program order.
StackCalls(d) == SelectSeq(calls, LAMBDA c : layers[c.layer].is_decoder = d)

\* C1: the configuration get_config returns rebuilds a model with the same
\* value of every one of the nine hyperparameters: the arguments the
\* reconstruction enters __init__ with are those of the original model.
C1_ConfigRoundTrip == gen = 1 => hp = orig

\* C2: construction with an invalid configuration (num_layers < 1,
\* num_heads < 1, vocabulary_size < 1, hidden_dim or intermediate_dim not
\* positive) never produces a model.
C2_RejectsInvalidConfiguration == model.built => ValidHyperparameters(hp)

\* C3: for every batch index b and decoder positions (i, j), the attention
\* mask passed to every decoder layer is set at (b, i, j) exactly when
\* j <= i and decoder_padding_mask(b, j) is set, the padding mask being a
\* mask (entries 0 and 1); and whatever integers the padding mask holds,
\* the entry is 0 for j > i (and the lowest binary digit of the padding
\* entry for j <= i).
C3_DecoderAttentionMask ==
    Built =>
        \A t \in {StackCalls(TRUE)[k].args.attention_mask :
                      k \in DOMAIN StackCalls(TRUE)} :
        /\ \A dl \in 1..MaxMaskLen :
           \A dp \in IntMasks(dl) :
               LET m == EvalMask(t, ForwardInput(Ones(1, 1), dp)) IN
               \A i \in Range0(dl), j \in Range0(dl) :
                   m[0][i][j] = (IF j <= i THEN dp[0][j] % 2 ELSE 0)
        /\ \A b \in 1..MaxBatch, dl \in 1..MaxMaskLen :
           \A dp \in PaddingMasks(b, dl) :
               LET m == EvalMask(t, ForwardInput(Ones(b, 1), dp)) IN
               /\ DOMAIN m = Range0(b)
               /\ \A bb \in Range0(b) :
                     /\ DOMAIN m[bb] = Range0(dl)
                     /\ \A i \in Range0(dl) :
                           /\ DOMAIN m[bb][i] = Range0(dl)
                           /\ \A j \in Range0(dl) :
                                 (m[bb][i][j] = 1) <=>
                                     (j <= i /\ dp[bb][j] = 1)

\* A decoder layer was called, and on some batch a padded-in position after
\* the query is masked out while the position itself is kept.
C3_Witness ==
    /\ Built
    /\ Len(StackCalls(TRUE)) >= 2
    /\ \E dp \in PaddingMasks(2, 2) :
          LET in == ForwardInput(Ones(2, 1), dp)
              m == EvalMask(StackCalls(TRUE)[2].args.attention_mask, in)
          IN
          /\ in.decoder_padding_mask[1][1] = 1
          /\ in.decoder_padding_mask[1][0] = 0
          /\ m[1][0][1] = 0
          /\ m[1][1][1] = 1
          /\ m[1][1][0] = 0
    /\ \E dp \in IntMasks(2) :
          LET m == EvalMask(StackCalls(TRUE)[2].args.attention_mask,
                            ForwardInput(Ones(1, 1), dp))
          IN
          /\ dp[0] = (0 :> 3 @@ 1 :> 2)
          /\ m[0] = (0 :> (0 :> 1 @@ 1 :> 0) @@ 1 :> (0 :> 1 @@ 1 :> 0))

\* C4: within one stack, every layer after layer 0 receives as position_bias
\* the tensor layer 0 returned, which is what the layer before it returned;
\* it is never None and never a bias of the other stack.
C4_PositionBiasThreaded ==
    \A d \in BOOLEAN :
        LET sc == StackCalls(d) IN
        \A k \in DOMAIN sc :
            /\ layers[sc[k].layer].index = k - 1
            /\ k >= 2 =>
                  /\ sc[k].args.position_bias # None
                  /\ sc[k].args.position_bias = sc[1].position_bias
                  /\ sc[k].args.position_bias = sc[k - 1].position_bias
                  /\ \A j \in DOMAIN StackCalls(~d) :
                        sc[k].args.position_bias # StackCalls(~d)[j].position_bias

\* Both stacks of a three-layer model are complete.
C4_Witness ==
    /\ pc = "done"
    /\ hp.num_layers = 3
    /\ Len(StackCalls(FALSE)) = 3
    /\ Len(StackCalls(TRUE)) = 3
    /\ StackCalls(TRUE)[3].args.position_bias = StackCalls(TRUE)[1].position_bias
    /\ StackCalls(FALSE)[3].args.position_bias = StackCalls(FALSE)[1].position_bias

EmbeddingLayers == {l \in DOMAIN layers : layers[l].cls = "Embedding"}

EmbeddingLookups == {t \in DOMAIN tensors : tensors[t].op = "Embedding"}

\* C5: one token-embedding table instance is created per model; the encoder
\* lookup and the decoder lookup both go through it, and the token_embedding
\* accessor returns it.
C5_SharedEmbedding ==
    /\ Cardinality(EmbeddingLayers) <= 1
    /\ \A t \in EmbeddingLookups : tensors[t].layer \in EmbeddingLayers
    /\ model.built =>
          /\ Cardinality(EmbeddingLayers) = 1
          /\ {tensors[t].args : t \in EmbeddingLookups} =
                 {<<model.inputs.encoder_token_ids>>,
                  <<model.inputs.decoder_token_ids>>}
    /\ Built =>
          /\ token_embedding(model) \in EmbeddingLayers
          /\ \A t \in EmbeddingLookups : tensors[t].layer = token_embedding(model)

\* A built model with both lookups made through the table the accessor gives.
C5_Witness ==
    /\ Built
    /\ Cardinality(EmbeddingLookups) = 2
    /\ token_embedding(model) # None
    /\ layers[token_embedding(model)].input_dim = hp.vocabulary_size

\* The handed-out bundle n is equal to the registry as written in the source.
EqualsRegistry(n) ==
    DeepEq(heap, returned[n].ref, backbone_presets, RegistryRef)

\* C6: the canonical registry never changes; every bundle the caller has not
\* mutated itself, whenever it was handed out, equals the canonical
\* registry; and no two bundles, nor a bundle and the registry, share a
\* dict.
C6_PresetIsolation ==
    /\ DeepEq(heap, RegistryRef, backbone_presets, RegistryRef)
    /\ \A n \in DOMAIN returned :
          /\ n \notin touched => EqualsRegistry(n)
          /\ Reach(heap, returned[n].ref) \cap Reach(heap, RegistryRef) = {}
          /\ \A m \in DOMAIN returned :
                m # n => Reach(heap, returned[n].ref)
                             \cap Reach(heap, returned[m].ref) = {}

\* Two accesses, the first bundle mutated away from the registry before the
\* second access, the second left alone.
C6_Witness ==
    /\ Len(returned) = 2
    /\ touched = {1}
    /\ returned[2].after > 0
    /\ ~EqualsRegistry(1)
    /\ EqualsRegistry(2)
    /\ returned[1].ref # returned[2].ref

OutputNames == {"encoder_sequence_output", "decoder_sequence_output"}

\* C7: the built model has exactly the four named inputs, each its own
\* placeholder of that name, and exactly the two named outputs; called on
\* inputs of shapes [batch, enc_len] and [batch, dec_len] the outputs have
\* shapes [batch, enc_len, hidden_dim] and [batch, dec_len, hidden_dim].
C7_Interface ==
    /\ model.built =>
          /\ DOMAIN model.inputs = InputNames
          /\ DOMAIN model.outputs = OutputNames
          /\ \A n \in InputNames :
                /\ tensors[model.inputs[n]].op = "Input"
                /\ tensors[model.inputs[n]].name = n
    /\ fwd.called =>
          /\ DOMAIN fwd.outputs = OutputNames
          /\ fwd.outputs["encoder_sequence_output"] =
                 <<fwd.batch, fwd.enc_len, hp.hidden_dim>>
          /\ fwd.outputs["decoder_sequence_output"] =
                 <<fwd.batch, fwd.dec_len, hp.hidden_dim>>

\* num_layers = 2, hidden_dim = 8, a batch of 2, lengths 5 and 4.
C7_Witness ==
    /\ fwd.called
    /\ hp.num_layers = 2
    /\ hp.hidden_dim = 8
    /\ fwd.outputs["encoder_sequence_output"] = <<2, 5, 8>>
    /\ fwd.outputs["decoder_sequence_output"] = <<2, 4, 8>>

\* The tensor t is the output of the layer named n applied to the tensor a.
IsLayerOutput(t, n, a) ==
    /\ t # None
    /\ tensors[t].layer # None
    /\ layers[tensors[t].layer].name = n
    /\ tensors[t].args = <<a>>

\* C8: every decoder layer receives as encoder_hidden_states the finished
\* encoder output (the last encoder layer's output, then the closing layer
\* normalization, then dropout: the tensor exposed as
\* encoder_sequence_output) and as encoder_attention_mask the encoder
\* padding mask with a new axis, of shape [batch, 1, enc_len]; when a
\* decoder layer is called all num_layers encoder layers have been.
C8_CrossAttentionInputs ==
    /\ \A k \in DOMAIN StackCalls(TRUE) :
          LET a == StackCalls(TRUE)[k].args
              enc == StackCalls(FALSE)
          IN /\ Len(enc) = hp.num_layers
             /\ a.encoder_hidden_states = loc.encoder_output
             /\ IsLayerOutput(a.encoder_hidden_states, "encoder_output_dropout",
                              a.encoder_hidden_states - 1)
             /\ IsLayerOutput(a.encoder_hidden_states - 1,
                              "encoder_output_layer_norm", enc[Len(enc)].x)
             /\ a.encoder_attention_mask = loc.encoder_attention_mask
             /\ tensors[a.encoder_attention_mask].op = "newaxis"
             /\ tensors[a.encoder_attention_mask].args =
                    <<loc.encoder_padding_mask>>
             /\ model.built =>
                    a.encoder_hidden_states =
                        model.outputs["encoder_sequence_output"]
    /\ Built =>
          \A t \in {StackCalls(TRUE)[k].args.encoder_attention_mask :
                        k \in DOMAIN StackCalls(TRUE)} :
          \A b \in 1..MaxBatch, el \in 1..MaxMaskLen :
          \A ep \in PaddingMasks(b, el) :
              LET in == ForwardInput(ep, Ones(b, 1)) IN
              /\ ShapeOf(t, in) = <<b, 1, el>>
              /\ EvalMask(t, in) = NewAxis(ep)

\* Every decoder layer of a two-layer model has been called.
C8_Witness ==
    /\ pc = "done"
    /\ hp.num_layers = 2
    /\ Len(StackCalls(TRUE)) = 2
    /\ StackCalls(TRUE)[2].args.encoder_hidden_states =
           model.outputs["encoder_sequence_output"]
    /\ StackCalls(TRUE)[1].args.encoder_hidden_states =
           model.outputs["encoder_sequence_output"]

\* The position-bias tensors computed by the layers of stack d.
StackBiases(d) ==
    {t \in DOMAIN tensors :
        /\ tensors[t].op = "T5TransformerLayer.position_bias"
        /\ layers[tensors[t].layer].is_decoder = d}

\* C9: in each stack the layer at index 0 is the only one built with
\* use_relative_attention_bias and the only one called with
\* position_bias = None (so decoder layer 0 does not receive the encoder's
\* bias), and the stack's layers compute one bias between them.
C9_FirstLayerComputesBias ==
    \A d \in BOOLEAN :
        LET sc == StackCalls(d) IN
        /\ \A k \in DOMAIN sc :
              /\ layers[sc[k].layer].use_relative_attention_bias <=> (k = 1)
              /\ (sc[k].args.position_bias = None) <=> (k = 1)
        /\ Cardinality(StackBiases(d)) = (IF Len(sc) >= 1 THEN 1 ELSE 0)

\* Decoder layer 0 has been called, after the encoder stack left a bias.
C9_Witness ==
    /\ Len(StackCalls(FALSE)) >= 1
    /\ Len(StackCalls(TRUE)) >= 2
    /\ loc.position_bias # None
    /\ StackCalls(TRUE)[1].args.position_bias = None
    /\ StackCalls(FALSE)[Len(StackCalls(FALSE))].position_bias # None

EncoderInputNames == {"encoder_token_ids", "encoder_padding_mask"}

\* The decoder padding mask dp complemented and one position longer.
OtherDecoderMask(dp) ==
    [b \in DOMAIN dp |->
        [j \in Range0(Cardinality(DOMAIN dp[b]) + 1) |->
            IF j \in DOMAIN dp[b] THEN 1 - dp[b][j] ELSE 1]]

\* C10: nothing computed from a decoder input flows into the encoder path:
\* the encoder attention mask, every argument of every encoder layer and
\* encoder_sequence_output are computed from encoder inputs only, and two
\* calls that agree on the encoder inputs and differ in the decoder inputs
\* (length and padding) evaluate the encoder attention mask to the same
\* value.
C10_EncoderIndependent ==
    /\ \A k \in DOMAIN StackCalls(FALSE) :
          LET c == StackCalls(FALSE)[k] IN
          /\ tensors[c.x].deps \subseteq EncoderInputNames
          /\ tensors[c.position_bias].deps \subseteq EncoderInputNames
          /\ tensors[c.args.attention_mask].deps \subseteq EncoderInputNames
    /\ loc.encoder_output # None =>
          tensors[loc.encoder_output].deps \subseteq EncoderInputNames
    /\ model.built =>
          tensors[model.outputs["encoder_sequence_output"]].deps
              \subseteq EncoderInputNames
    /\ Built =>
          \A b \in 1..MaxBatch, el \in 1..MaxMaskLen :
          \A ep \in PaddingMasks(b, el), dp \in PaddingMasks(b, 1) :
              EvalMask(loc.encoder_attention_mask, ForwardInput(ep, dp)) =
                  EvalMask(loc.encoder_attention_mask,
                           ForwardInput(ep, OtherDecoderMask(dp)))

\* A built model with encoder layers whose decoder output does depend on
\* the decoder inputs while its encoder output depends on encoder inputs.
C10_Witness ==
    /\ Built
    /\ hp.num_layers >= 1
    /\ tensors[model.outputs["encoder_sequence_output"]].deps = EncoderInputNames
    /\ tensors[model.outputs["decoder_sequence_output"]].deps = InputNames

====
